---- MODULE Spec2Model ----
(***************************************************************************)
(* Block header types of crates/types/src/blockchain/header.rs:            *)
(* PartialBlockHeader, BlockHeader, the generation of a complete header    *)
(* from a partial one, the two header digests and the cached block id.     *)
(*                                                                         *)
(* Byte strings are sequences of integers 0..255.  The two collaborators   *)
(* that produce 32-byte values (fuel_crypto::Hasher, the binary merkle     *)
(* tree of fuel_merkle) are modelled as injective: their output is the     *)
(* consumed input between marker tokens that are not bytes.                *)
(***************************************************************************)
EXTENDS Integers, Sequences, FiniteSets, TLC

\* ------------------------------------------------------------------ bounds
MaxLen == 2        \* longest transaction list
MaxMsgs == 1       \* longest message id list
MaxWrites == 1     \* direct writes to public fields in one behaviour

\* --------------------------------------------------------------- encodings
U64Bytes == 8
U32Bytes == 4
Bytes32Len == 32
DigestOpen == 256
DigestClose == 257
MerkleOpen == 258
MerkleLeaf == 259

None == <<>>
Some(x) == <<x>>

\* uN::to_be_bytes: the width lowest bytes of n, most significant first
RECURSIVE to_be_bytes(_, _)
to_be_bytes(n, width) ==
    IF width = 0 THEN <<>>
    ELSE Append(to_be_bytes(n \div 256, width - 1), n % 256)

\* fuel_crypto::Hasher: default(), input(bytes), digest()
HasherDefault == <<>>
HasherInput(hasher, bytes) == hasher \o bytes
HasherDigest(hasher) == <<DigestOpen>> \o hasher \o <<DigestClose>>

\* fuel_merkle::binary::in_memory::MerkleTree: new(), push(leaf), root()
MerkleTreeNew == <<>>
MerkleTreePush(tree, leaf) == Append(tree, leaf)
RECURSIVE MerkleLeaves(_)
MerkleLeaves(tree) ==
    IF tree = <<>> THEN <<>>
    ELSE <<MerkleLeaf>> \o Head(tree) \o MerkleLeaves(Tail(tree))
MerkleTreeRoot(tree) == <<MerkleOpen>> \o MerkleLeaves(tree) \o <<DigestClose>>

\* `for id in list { tree.push(id.as_ref()) }`
\* fault: the leaves are pushed last to first
RECURSIVE PushAll_reversed(_, _)
PushAll_reversed(tree, list) ==
    IF list = <<>> THEN tree
    ELSE MerkleTreePush(PushAll_reversed(tree, Tail(list)), Head(list))

RECURSIVE PushAll(_, _)
PushAll(tree, list) ==
    IF list = <<>> THEN tree
    ELSE PushAll(MerkleTreePush(tree, Head(list)), Tail(list))

\* ------------------------------------------------------------- the digests
\* ApplicationHeader<GeneratedApplicationFields>::hash
\* fault: the two counts are fed to the hasher in the other order
ApplicationHeader_hash_swapped(a) ==
    LET h0 == HasherDefault
        h1 == HasherInput(h0, to_be_bytes(a.da_height, U64Bytes))
        h2 == HasherInput(h1, to_be_bytes(a.generated.output_messages_count, U64Bytes))
        h3 == HasherInput(h2, to_be_bytes(a.generated.transactions_count, U64Bytes))
        h4 == HasherInput(h3, a.generated.transactions_root)
        h5 == HasherInput(h4, a.generated.output_messages_root)
    IN  HasherDigest(h5)

ApplicationHeader_hash(a) ==
    LET h0 == HasherDefault
        h1 == HasherInput(h0, to_be_bytes(a.da_height, U64Bytes))
        h2 == HasherInput(h1, to_be_bytes(a.generated.transactions_count, U64Bytes))
        h3 == HasherInput(h2, to_be_bytes(a.generated.output_messages_count, U64Bytes))
        h4 == HasherInput(h3, a.generated.transactions_root)
        h5 == HasherInput(h4, a.generated.output_messages_root)
    IN  HasherDigest(h5)

\* ConsensusHeader<GeneratedConsensusFields>::hash
ConsensusHeader_hash(c) ==
    LET h0 == HasherDefault
        h1 == HasherInput(h0, c.prev_root)
        h2 == HasherInput(h1, to_be_bytes(c.height, U32Bytes))
        h3 == HasherInput(h2, to_be_bytes(c.time, U64Bytes))
        h4 == HasherInput(h3, c.generated.application_hash)
    IN  HasherDigest(h4)

\* ------------------------------------------------------------- BlockHeader
\* BlockHeader::hash
hash(h) == ConsensusHeader_hash(h.consensus)

\* BlockHeader::recalculate_metadata
\* fault: the application hash is cached as the id
recalculate_metadata_application_hash(h) ==
    [h EXCEPT !.metadata = Some([id |-> h.consensus.generated.application_hash])]

\* fault: a present cache is kept
recalculate_metadata_if_absent(h) ==
    IF h.metadata = None THEN [h EXCEPT !.metadata = Some([id |-> hash(h)])] ELSE h

recalculate_metadata(h) == [h EXCEPT !.metadata = Some([id |-> hash(h)])]

\* BlockHeader::id
id(h) == IF h.metadata # None THEN h.metadata[1].id ELSE hash(h)

\* BlockHeader / PartialBlockHeader accessors
prev_root(h) == h.consensus.prev_root
height(h) == h.consensus.height
time(h) == h.consensus.time
application_hash(h) == h.consensus.generated.application_hash
consensus_type(h) == "PoA"

\* PartialBlockHeader::generate
\* fault: the partial header's metadata is carried into the result
generate_keeps_metadata(self, transactions, message_ids) ==
    LET transaction_tree == PushAll(MerkleTreeNew, transactions)
        transactions_root == MerkleTreeRoot(transaction_tree)
        message_tree == PushAll(MerkleTreeNew, message_ids)
        output_messages_root == MerkleTreeRoot(message_tree)
        application ==
            [da_height |-> self.application.da_height,
             generated |->
                [transactions_count |-> Len(transactions),
                 output_messages_count |-> Len(message_ids),
                 transactions_root |-> transactions_root,
                 output_messages_root |-> output_messages_root]]
        header ==
            [application |-> application,
             consensus |->
                [prev_root |-> self.consensus.prev_root,
                 height |-> self.consensus.height,
                 time |-> self.consensus.time,
                 generated |-> [application_hash |-> ApplicationHeader_hash(application)]],
             metadata |-> self.metadata]
    IN  IF header.metadata = None THEN recalculate_metadata(header) ELSE header

\* fault: the time is not carried over
generate_default_time(self, transactions, message_ids) ==
    LET transaction_tree == PushAll(MerkleTreeNew, transactions)
        transactions_root == MerkleTreeRoot(transaction_tree)
        message_tree == PushAll(MerkleTreeNew, message_ids)
        output_messages_root == MerkleTreeRoot(message_tree)
        application ==
            [da_height |-> self.application.da_height,
             generated |->
                [transactions_count |-> Len(transactions),
                 output_messages_count |-> Len(message_ids),
                 transactions_root |-> transactions_root,
                 output_messages_root |-> output_messages_root]]
        header ==
            [application |-> application,
             consensus |->
                [prev_root |-> self.consensus.prev_root,
                 height |-> self.consensus.height,
                 time |-> 0,
                 generated |-> [application_hash |-> ApplicationHeader_hash(application)]],
             metadata |-> None]
    IN  recalculate_metadata(header)

generate(self, transactions, message_ids) ==
    LET transaction_tree == PushAll(MerkleTreeNew, transactions)
        transactions_root == MerkleTreeRoot(transaction_tree)
        message_tree == PushAll(MerkleTreeNew, message_ids)
        output_messages_root == MerkleTreeRoot(message_tree)
        application ==
            [da_height |-> self.application.da_height,
             generated |->
                [transactions_count |-> Len(transactions),
                 output_messages_count |-> Len(message_ids),
                 transactions_root |-> transactions_root,
                 output_messages_root |-> output_messages_root]]
        header ==
            [application |-> application,
             consensus |->
                [prev_root |-> self.consensus.prev_root,
                 height |-> self.consensus.height,
                 time |-> self.consensus.time,
                 generated |-> [application_hash |-> ApplicationHeader_hash(application)]],
             metadata |-> None]
    IN  recalculate_metadata(header)

\* ------------------------------------------------------------ input sets
Bytes32Zero == [i \in 1..Bytes32Len |-> 0]
Bytes32One == [i \in 1..Bytes32Len |-> IF i = Bytes32Len THEN 1 ELSE 0]
Bytes32Ones == [i \in 1..Bytes32Len |-> 17]

DaHeights == {7, 260}
Heights == {0, 42}
Times == {100, 65536}
PrevRoots == {Bytes32Zero, Bytes32One}
Txs == {<<97, 98, 99>>, <<0>>}
MsgIds == {Bytes32Ones}

RECURSIVE ListsUpTo(_, _)
ListsUpTo(S, n) ==
    IF n = 0 THEN {<<>>}
    ELSE LET shorter == ListsUpTo(S, n - 1)
         IN  shorter \cup {Append(l, x) : l \in shorter, x \in S}

TxLists == ListsUpTo(Txs, MaxLen)
MsgLists == ListsUpTo(MsgIds, MaxMsgs)

\* A header some other block produced: its metadata and application hash can
\* be cloned into the public fields of the header under consideration.
DonorPartial ==
    [application |-> [da_height |-> 7],
     consensus |-> [prev_root |-> Bytes32Zero, height |-> 0, time |-> 100],
     metadata |-> None]
DonorHeader == generate(DonorPartial, <<>>, <<>>)

\* the counts written directly into a public field
Counts == {0, 1}
Metadatas == {None, DonorHeader.metadata}
Roots == {MerkleTreeRoot(MerkleTreeNew), Bytes32Zero}
ApplicationHashes == {application_hash(DonorHeader), Bytes32Zero}

PartialBlockHeaders ==
    [application : [da_height : DaHeights],
     consensus : [prev_root : PrevRoots, height : Heights, time : Times],
     metadata : Metadatas]

\* ------------------------------------------------------------------- state
VARIABLES
    partial,    \* Option<PartialBlockHeader>: None once moved into generate
    header,     \* Option<BlockHeader>: None until generate returned it
    call,       \* the last call: its name, receiver and arguments
    ret,        \* Option<BlockId>: what the last call returned
    writes      \* direct writes to public fields so far

vars == <<partial, header, call, ret, writes>>

NoCall == [op |-> "new", self |-> None, transactions |-> <<>>, message_ids |-> <<>>]
CallOn(op, self) == [NoCall EXCEPT !.op = op, !.self = Some(self)]

Init ==
    /\ partial \in {Some(p) : p \in PartialBlockHeaders}
    /\ header = None
    /\ call = NoCall
    /\ ret = None
    /\ writes = 0

\* PartialBlockHeader::generate(self, ..): self is moved, so there is no
\* partial header left afterwards.
\* fault: generate borrows self, the partial header stays usable
Generate_borrowing ==
    /\ partial # None
    /\ \E transactions \in TxLists, message_ids \in MsgLists :
        /\ header' = Some(generate(partial[1], transactions, message_ids))
        /\ call' = [op |-> "generate", self |-> partial,
                    transactions |-> transactions, message_ids |-> message_ids]
    /\ ret' = None
    /\ UNCHANGED <<partial, writes>>

Generate ==
    /\ partial # None
    /\ \E transactions \in TxLists, message_ids \in MsgLists :
        /\ header' = Some(generate(partial[1], transactions, message_ids))
        /\ call' = [op |-> "generate", self |-> partial,
                    transactions |-> transactions, message_ids |-> message_ids]
    /\ partial' = None
    /\ ret' = None
    /\ UNCHANGED writes

\* BlockHeader::recalculate_metadata(&mut self)
RecalculateMetadata ==
    /\ header # None
    /\ header' = Some(recalculate_metadata(header[1]))
    /\ call' = CallOn("recalculate_metadata", header[1])
    /\ ret' = None
    /\ UNCHANGED <<partial, writes>>

\* BlockHeader::hash(&self)
Hash ==
    /\ header # None
    /\ ret' = Some(hash(header[1]))
    /\ call' = CallOn("hash", header[1])
    /\ UNCHANGED <<partial, header, writes>>

\* BlockHeader::id(&self)
\* fault: id() fills the cache
Id_populating ==
    /\ header # None
    /\ ret' = Some(id(header[1]))
    /\ call' = CallOn("id", header[1])
    /\ header' = Some(recalculate_metadata(header[1]))
    /\ UNCHANGED <<partial, writes>>

Id ==
    /\ header # None
    /\ ret' = Some(id(header[1]))
    /\ call' = CallOn("id", header[1])
    /\ UNCHANGED <<partial, header, writes>>

\* `pub application`: a write to one field of the application header
ApplicationWrites(a) ==
    {[a EXCEPT !.da_height = v] : v \in DaHeights}
    \cup {[a EXCEPT !.generated.transactions_count = v] : v \in Counts}
    \cup {[a EXCEPT !.generated.output_messages_count = v] : v \in Counts}
    \cup {[a EXCEPT !.generated.transactions_root = v] : v \in Roots}
    \cup {[a EXCEPT !.generated.output_messages_root = v] : v \in Roots}

WriteApplication ==
    /\ header # None
    /\ writes < MaxWrites
    /\ \E a \in ApplicationWrites(header[1].application) \ {header[1].application} :
        header' = Some([header[1] EXCEPT !.application = a])
    /\ call' = [NoCall EXCEPT !.op = "write_application"]
    /\ ret' = None
    /\ writes' = writes + 1
    /\ UNCHANGED partial

\* `pub consensus`: a write to one field of the consensus header
ConsensusWrites(c) ==
    {[c EXCEPT !.prev_root = v] : v \in PrevRoots}
    \cup {[c EXCEPT !.height = v] : v \in Heights}
    \cup {[c EXCEPT !.time = v] : v \in Times}
    \cup {[c EXCEPT !.generated.application_hash = v] : v \in ApplicationHashes}

WriteConsensus ==
    /\ header # None
    /\ writes < MaxWrites
    /\ \E c \in ConsensusWrites(header[1].consensus) \ {header[1].consensus} :
        header' = Some([header[1] EXCEPT !.consensus = c])
    /\ call' = [NoCall EXCEPT !.op = "write_consensus"]
    /\ ret' = None
    /\ writes' = writes + 1
    /\ UNCHANGED partial

\* `pub metadata`: the cache is cleared or cloned from another header
WriteMetadata ==
    /\ header # None
    /\ writes < MaxWrites
    /\ \E m \in Metadatas \ {header[1].metadata} :
        header' = Some([header[1] EXCEPT !.metadata = m])
    /\ call' = [NoCall EXCEPT !.op = "write_metadata"]
    /\ ret' = None
    /\ writes' = writes + 1
    /\ UNCHANGED partial

Next ==
    \/ Generate
    \/ RecalculateMetadata
    \/ Hash
    \/ Id
    \/ WriteApplication
    \/ WriteConsensus
    \/ WriteMetadata

Spec == Init /\ [][Next]_vars

\* ------------------------------------------------------------ properties
H == header[1]
Digest(bytes) == <<DigestOpen>> \o bytes \o <<DigestClose>>

\* every header generate returns for the inputs considered
GeneratedHeaders ==
    {generate(p, t, m) : p \in PartialBlockHeaders, t \in TxLists, m \in MsgLists}

\* h is a header as generate returns it
FromGenerate(h) ==
    /\ h.metadata # None
    /\ \E t \in TxLists, m \in MsgLists :
        /\ Len(t) = h.application.generated.transactions_count
        /\ Len(m) = h.application.generated.output_messages_count
        /\ h = generate([application |-> [da_height |-> h.application.da_height],
                         consensus |-> [prev_root |-> prev_root(h),
                                        height |-> height(h),
                                        time |-> time(h)],
                         metadata |-> None], t, m)

\* the header fields the identity is said to commit to
CommittedFields(h) ==
    <<h.application.da_height,
      h.application.generated.transactions_count,
      h.application.generated.output_messages_count,
      h.application.generated.transactions_root,
      h.application.generated.output_messages_root,
      h.consensus.prev_root, h.consensus.height, h.consensus.time>>

\* C1: whenever the cache of a complete header is present, the cached id is
\* the identity hash() computes from the header's current fields.
C1_CacheCoherent ==
    (header # None /\ H.metadata # None) => H.metadata[1].id = hash(H)

\* C2: two complete headers that differ in an application field or in
\* prev_root, height or time have different identities, also when the header
\* was written to and recalculate_metadata() was called afterwards.
C2_CommitsToEveryField ==
    header # None =>
        \A g \in GeneratedHeaders :
            CommittedFields(g) # CommittedFields(H) =>
                /\ hash(g) # hash(H)
                /\ call.op = "recalculate_metadata" => id(g) # id(H)

C4_DigestLayout ==
    call.op = "generate" =>
        LET a == H.application
            c == H.consensus
        IN  /\ application_hash(H) =
                  Digest(to_be_bytes(a.da_height, 8)
                         \o to_be_bytes(a.generated.transactions_count, 8)
                         \o to_be_bytes(a.generated.output_messages_count, 8)
                         \o a.generated.transactions_root
                         \o a.generated.output_messages_root)
            /\ hash(H) =
                  Digest(c.prev_root
                         \o to_be_bytes(c.height, 4)
                         \o to_be_bytes(c.time, 8)
                         \o c.generated.application_hash)
            /\ id(H) = id(generate(call.self[1], call.transactions, call.message_ids))

C4_Witness ==
    /\ call.op = "generate"
    /\ H.application.generated.transactions_count = 2
    /\ H.application.generated.output_messages_count = 1
    /\ H.application.da_height = 260
    /\ H.consensus.height = 42
    /\ H.consensus.time = 65536

\* C5: right after generate the cache is present and holds the identity of
\* the new header's own fields, whatever the partial header's metadata was.
C5_GenerateCaches ==
    call.op = "generate" =>
        /\ H.metadata = Some([id |-> hash(H)])
        /\ id(H) = hash(H)

C5_Witness ==
    /\ call.op = "generate"
    /\ call.self[1].metadata # None
    /\ H.metadata # call.self[1].metadata
    /\ id(H) = hash(H)

\* C6: on a header whose cache is absent, or that is as generate returned it,
\* id() gives the same value before and after recalculate_metadata().
C6_CacheEquivalence ==
    (/\ call.op = "recalculate_metadata"
     /\ \/ call.self[1].metadata = None
        \/ FromGenerate(call.self[1]))
        => id(H) = id(call.self[1])

C6_Witness ==
    /\ call.op = "recalculate_metadata"
    /\ call.self[1].metadata = None
    /\ H.metadata # None
    /\ id(H) = id(call.self[1])

\* C7: id() returns the cached id when the cache is present and hash()
\* otherwise, and leaves the header, cache included, as it was.
C7_IdPureRead ==
    call.op = "id" =>
        /\ H = call.self[1]
        /\ ret = Some(IF call.self[1].metadata # None
                      THEN call.self[1].metadata[1].id
                      ELSE hash(call.self[1]))

C7_Witness ==
    /\ call.op = "id"
    /\ H.metadata = None
    /\ ret = Some(hash(H))

\* C8: generate carries da_height, prev_root, height and time over from the
\* partial header, for every transaction and message list, and both header
\* forms report the consensus type PoA.
C8_CarriedOver ==
    call.op = "generate" =>
        LET p == call.self[1]
        IN  /\ H.application.da_height = p.application.da_height
            /\ prev_root(H) = prev_root(p)
            /\ height(H) = height(p)
            /\ time(H) = time(p)
            /\ consensus_type(H) = "PoA"
            /\ consensus_type(p) = "PoA"
            /\ \A t \in TxLists, m \in MsgLists :
                LET g == generate(p, t, m)
                IN  /\ g.application.da_height = H.application.da_height
                    /\ prev_root(g) = prev_root(H)
                    /\ height(g) = height(H)
                    /\ time(g) = time(H)

C8_Witness ==
    /\ call.op = "generate"
    /\ call.transactions # <<>>
    /\ call.message_ids # <<>>
    /\ H.application.da_height = 260
    /\ prev_root(H) = Bytes32One
    /\ height(H) = 42
    /\ time(H) = 65536

\* C9: a header is either partial or complete, never both; a complete header
\* stays complete, the partial header is gone once it was generated from, and
\* only generate makes a partial header complete.
C9_Lifecycle ==
    /\ []((partial = None) # (header = None))
    /\ [][/\ header # None => (header' # None /\ partial' = None)
          /\ partial = None => partial' = None
          /\ (header = None /\ header' # None) =>
                (call'.op = "generate" /\ partial # None)]_vars

C9_Witness ==
    /\ call.op = "recalculate_metadata"
    /\ partial = None
    /\ header # None
    /\ writes > 0

\* C10: after recalculate_metadata() the cache is present and holds hash() of
\* the current fields whatever it held before, no other field has changed,
\* and a second call changes nothing.
C10_RecalculateOverwrites ==
    call.op = "recalculate_metadata" =>
        /\ H.metadata = Some([id |-> hash(H)])
        /\ id(H) = hash(H)
        /\ H.application = call.self[1].application
        /\ H.consensus = call.self[1].consensus
        /\ recalculate_metadata(H) = H

C10_Witness ==
    /\ call.op = "recalculate_metadata"
    /\ call.self[1].metadata # None
    /\ call.self[1].metadata[1].id # hash(call.self[1])
    /\ H.metadata[1].id = hash(H)

====
